---------------------------- MODULE Spec2Model ----------------------------
(***************************************************************************)
(* MoodSync (app.py): the CSV song catalog (ensure_dataset, load_songs,    *)
(* save_song), the query engine (filter_songs) and the two routes that     *)
(* drive them (home, add_song).                                            *)
(*                                                                         *)
(* Text is a sequence of one-character strings, so that str.lower,         *)
(* str.strip, str.capitalize, int() and the substring test are computed    *)
(* character by character.  A link that is only stored and never inspected *)
(* starts with one opaque piece (the URL prefix).                          *)
(***************************************************************************)
EXTENDS Integers, Sequences, FiniteSets, TLC

----------------------------------------------------------------------------
(* Bounds of the model *)

\* longest catalog the store holds before the program first touches it
MaxInitRows == 1
\* number of accepted add-song submissions in one run
MaxAdds == 1
\* longest record list handed to filter_songs on its own
MaxLen == 3

----------------------------------------------------------------------------
(* Python values *)

\* None, as a text-typed value that no text equals
None == <<"<None>">>

\* truthiness of an optional text: None and "" are falsy
Truthy(s) == s # None /\ s # <<>>

UpperLetters == <<"A","B","C","D","E","F","G","H","I","J","K","L","M",
                  "N","O","P","Q","R","S","T","U","V","W","X","Y","Z">>
LowerLetters == <<"a","b","c","d","e","f","g","h","i","j","k","l","m",
                  "n","o","p","q","r","s","t","u","v","w","x","y","z">>
Digits == <<"0","1","2","3","4","5","6","7","8","9">>
Whitespace == {" ", "\t"}

IndexIn(c, tbl) == CHOOSE i \in DOMAIN tbl : tbl[i] = c
IsIn(c, tbl) == \E i \in DOMAIN tbl : tbl[i] = c

UpperSet == {UpperLetters[i] : i \in DOMAIN UpperLetters}
LowerSet == {LowerLetters[i] : i \in DOMAIN LowerLetters}
ToLower == [c \in UpperSet |-> LowerLetters[IndexIn(c, UpperLetters)]]
ToUpper == [c \in LowerSet |-> UpperLetters[IndexIn(c, LowerLetters)]]

LowerChar(c) == IF c \in UpperSet THEN ToLower[c] ELSE c
UpperChar(c) == IF c \in LowerSet THEN ToUpper[c] ELSE c

\* str.lower()
lower(s) == [i \in 1..Len(s) |-> LowerChar(s[i])]

\* str.capitalize(): first character upper-cased, the rest lower-cased
capitalize(s) == [i \in 1..Len(s) |-> IF i = 1 THEN UpperChar(s[i]) ELSE LowerChar(s[i])]

\* str.strip()
strip(s) ==
  LET keep == {i \in 1..Len(s) : s[i] \notin Whitespace}
  IN  IF keep = {} THEN <<>>
      ELSE LET lo == CHOOSE i \in keep : \A j \in keep : i <= j
               hi == CHOOSE i \in keep : \A j \in keep : i >= j
           IN  SubSeq(s, lo, hi)

\* sub in s
Contains(sub, s) ==
  \E i \in 0..(Len(s) - Len(sub)) : SubSeq(s, i + 1, i + Len(sub)) = sub

\* value of a non-empty digit string
RECURSIVE DigitsValue(_)
DigitsValue(d) ==
  IF d = <<>> THEN 0
  ELSE 10 * DigitsValue(SubSeq(d, 1, Len(d) - 1)) + (IndexIn(d[Len(d)], Digits) - 1)

\* int(text): surrounding whitespace and one sign are accepted; anything
\* else raises ValueError (ok = FALSE)
ParseInt(s) ==
  LET t    == strip(s)
      neg  == t # <<>> /\ t[1] = "-"
      sgn  == t # <<>> /\ t[1] \in {"-", "+"}
      body == IF sgn THEN Tail(t) ELSE t
      good == body # <<>> /\ \A i \in 1..Len(body) : IsIn(body[i], Digits)
  IN  [ok |-> good,
       val |-> IF good THEN (IF neg THEN 0 - DigitsValue(body) ELSE DigitsValue(body)) ELSE 0]

\* str(n) for an integer
RECURSIVE NatToText(_)
NatToText(n) ==
  IF n < 10 THEN <<Digits[n + 1]>>
  ELSE NatToText(n \div 10) \o <<Digits[(n % 10) + 1]>>

IntToText(n) == IF n < 0 THEN <<"-">> \o NatToText(0 - n) ELSE NatToText(n)

\* format spec {i:02d}
Pad2(i) == IF i >= 0 /\ i < 10 THEN <<"0">> \o NatToText(i) ELSE IntToText(i)

\* " ".join(parts)
RECURSIVE JoinSpace(_)
JoinSpace(parts) ==
  IF parts = <<>> THEN <<>>
  ELSE IF Len(parts) = 1 THEN parts[1]
  ELSE parts[1] \o <<" ">> \o JoinSpace(Tail(parts))

----------------------------------------------------------------------------
(* Constants of app.py *)

T_Happy == <<"H","a","p","p","y">>
T_Sad == <<"S","a","d">>
T_Energetic == <<"E","n","e","r","g","e","t","i","c">>
T_Calm == <<"C","a","l","m">>
T_Focus == <<"F","o","c","u","s">>
T_English == <<"E","n","g","l","i","s","h">>
T_Telugu == <<"T","e","l","u","g","u">>
T_Hindi == <<"H","i","n","d","i">>
T_Tamil == <<"T","a","m","i","l">>
T_Malayalam == <<"M","a","l","a","y","a","l","a","m">>
T_Instrumental == <<"I","n","s","t","r","u","m","e","n","t","a","l">>
T_Various == <<"V","a","r","i","o","u","s">>
T_Unknown == <<"U","n","k","n","o","w","n">>
T_Any == <<"A","n","y">>
T_Track == <<" ","T","r","a","c","k"," ">>
T_song == <<"s","o","n","g">>

\* a row as the program holds it before csv.writer writes it
Row(title, artist, mood, energy, language, link) ==
  [title |-> title, artist |-> artist, mood |-> mood, energy |-> energy,
   language |-> language, link |-> link]

BASE_SAMPLE_ROWS ==
  << Row(<<"O","n"," ","T","o","p"," ","o","f"," ","t","h","e"," ","W","o","r","l","d">>, <<"I","m","a","g","i","n","e"," ","D","r","a","g","o","n","s">>, T_Happy, 4, T_English,
              <<"https://www.youtube.com/watch?v=w5tWYmIOWGk">>),
     Row(<<"C","o","u","n","t","i","n","g"," ","S","t","a","r","s">>, <<"O","n","e","R","e","p","u","b","l","i","c">>, T_Happy, 4, T_English,
              <<"https://www.youtube.com/watch?v=hT_nvWreIhg">>),
     Row(<<"S","o","m","e","o","n","e"," ","L","i","k","e"," ","Y","o","u">>, <<"A","d","e","l","e">>, T_Sad, 2, T_English,
              <<"https://www.youtube.com/watch?v=hLQl3WQQoQ0">>),
     Row(<<"P","e","r","f","e","c","t">>, <<"E","d"," ","S","h","e","e","r","a","n">>, T_Sad, 2, T_English,
              <<"https://www.youtube.com/watch?v=2Vv-BfVoq4g">>),
     Row(<<"B","e","l","i","e","v","e","r">>, <<"I","m","a","g","i","n","e"," ","D","r","a","g","o","n","s">>, T_Energetic, 5, T_English,
              <<"https://www.youtube.com/watch?v=7wtfhZwyrcc">>),
     Row(<<"L","e","v","e","l","s">>, <<"A","v","i","c","i","i">>, T_Energetic, 5, T_English,
              <<"https://www.youtube.com/watch?v=_ovdm2yX4MA">>),
     Row(<<"W","e","i","g","h","t","l","e","s","s">>, <<"M","a","r","c","o","n","i"," ","U","n","i","o","n">>, T_Calm, 1, T_English,
              <<"https://www.youtube.com/watch?v=UfcAVejslrU">>),
     Row(<<"R","i","v","e","r"," ","F","l","o","w","s"," ","i","n"," ","Y","o","u">>, <<"Y","i","r","u","m","a">>, T_Calm, 1, T_Instrumental,
              <<"https://www.youtube.com/watch?v=7maJOI3QMu0">>),
     Row(<<"L","o","f","i"," ","B","e","a","t","s"," ","t","o"," ","S","t","u","d","y">>, <<"A","s","s","o","r","t","e","d">>, T_Focus, 2, T_Instrumental,
              <<"https://www.youtube.com/watch?v=jfKfPfyJRdk">>),
     Row(<<"R","a","i","n","y"," ","N","i","g","h","t"," ","S","t","u","d","y">>, <<"A","s","s","o","r","t","e","d">>, T_Focus, 2, T_Instrumental,
              <<"https://www.youtube.com/watch?v=DWcJFNfaw9c">>) >>

MOODS == <<T_Happy, T_Sad, T_Energetic, T_Calm, T_Focus>>
LANGUAGES == <<T_English, T_Telugu, T_Hindi, T_Tamil, T_Malayalam>>

\* default of ensure_dataset's min_per_language
DefaultMin == 20

\* cap of the recommendation listing, filtered[:100]
ResultCap == 100

InMoods(m) == \E i \in DOMAIN MOODS : MOODS[i] = m
IsTracked(l) == \E i \in DOMAIN LANGUAGES : LANGUAGES[i] = l


----------------------------------------------------------------------------
(* Link resolver *)

HexDigits == <<"0","1","2","3","4","5","6","7","8","9","A","B","C","D","E","F">>
\* ASCII codes of the reserved characters of the modelled alphabet
AsciiChars == <<"!", "&", "'", "+", ",", "/", ":", "=", "?">>
AsciiCodes == <<33, 38, 39, 43, 44, 47, 58, 61, 63>>

\* urllib.parse.quote_plus, one character
QuoteChar(c) ==
  IF c = " " THEN <<"+">>
  ELSE IF IsIn(c, AsciiChars)
       THEN LET code == AsciiCodes[IndexIn(c, AsciiChars)]
            IN  <<"%", HexDigits[(code \div 16) + 1], HexDigits[(code % 16) + 1]>>
       ELSE <<c>>

RECURSIVE quote_plus(_)
quote_plus(s) == IF s = <<>> THEN <<>> ELSE QuoteChar(s[1]) \o quote_plus(Tail(s))

UrlPrefix == <<"https://www.youtube.com/results?search_query=">>

youtube_search_link(parts) ==
  UrlPrefix \o quote_plus(JoinSpace(SelectSeq(parts, LAMBDA p : Truthy(p))))

----------------------------------------------------------------------------
(* Catalog seeder *)

generate_language_rows(language, count) ==
  [i \in 1..count |->
     LET mood   == MOODS[((i - 1) % Len(MOODS)) + 1]
         energy == (i % 5) + 1
     IN  Row(language \o <<" ">> \o mood \o T_Track \o Pad2(i), T_Various, mood,
             energy, language, youtube_search_link(<<language, mood, T_song>>))]

----------------------------------------------------------------------------
(* Record store: songs.csv                                                 *)
(* file is "absent", "corrupt" (exists, reading it raises) or "ok"; rows   *)
(* are the data lines after the header, each a sequence of text fields.    *)
(* A readable file starts with the header line the program writes.         *)

\* csv.writer.writerow([title, artist, mood, energy, language, link])
writerow(r) == <<r.title, r.artist, r.mood, IntToText(r.energy), r.language, r.link>>

writerows(rs) == [i \in 1..Len(rs) |-> writerow(rs[i])]

\* csv.DictReader: a field the line does not have reads as None
Col == [title |-> 1, artist |-> 2, mood |-> 3, energy |-> 4, language |-> 5, link |-> 6]
Field(line, k) == IF Col[k] <= Len(line) THEN line[Col[k]] ELSE None

SeedOrder == <<T_Telugu, T_Hindi, T_Tamil, T_Malayalam, T_English>>

RECURSIVE ConcatAll(_)
ConcatAll(ss) == IF ss = <<>> THEN <<>> ELSE ss[1] \o ConcatAll(Tail(ss))

\* the rows written when the file is created
FreshRows(n) ==
  writerows(BASE_SAMPLE_ROWS)
    \o ConcatAll([k \in 1..Len(SeedOrder) |-> writerows(generate_language_rows(SeedOrder[k], n))])

\* needs_write = not os.path.exists(DATA_FILE)
NeedsWrite(f) == f = "absent"

\* variant: the count reads the mood column
CountWrongColumn(lines, lang) ==
  Cardinality({i \in DOMAIN lines : Field(lines[i], "mood") = lang})
\* counts[lang] after the counting loop
CountLang(lines, lang) ==
  Cardinality({i \in DOMAIN lines : Field(lines[i], "language") = lang})

\* variant: the deficit one row short
DeficitOffByOne(count, n) == n - count - 1
\* deficit = min_per_language - counts.get(lang, 0)
Deficit(count, n) == n - count

\* the list `more`
TopUpRows(lines, n) ==
  ConcatAll([k \in 1..Len(LANGUAGES) |->
     IF CountLang(lines, LANGUAGES[k]) < n
     THEN generate_language_rows(LANGUAGES[k], Deficit(CountLang(lines, LANGUAGES[k]), n))
     ELSE <<>>])

\* variant: the top-up opens the file with "w"
TopUpTruncates(lines, more) == writerows(more)
\* open(DATA_FILE, "a") and one writerow per row of `more`
AppendRows(lines, more) == lines \o writerows(more)

\* ensure_dataset(min_per_language): the store after the call and whether
\* the call opened the file for writing
RECURSIVE ensure_dataset(_, _, _)
ensure_dataset(f, lines, n) ==
  IF NeedsWrite(f)
  THEN [file |-> "ok", rows |-> FreshRows(n), wrote |-> TRUE]
  ELSE IF f # "ok"
       THEN \* the read raised: os.remove, then the call on the absent file
            ensure_dataset("absent", <<>>, n)
       ELSE LET more == TopUpRows(lines, n)
            IN  IF more # <<>>
                THEN [file |-> "ok", rows |-> AppendRows(lines, more), wrote |-> TRUE]
                ELSE [file |-> "ok", rows |-> lines, wrote |-> FALSE]

\* `a or b` on optional text
OrElse(s, dflt) == IF Truthy(s) THEN s ELSE dflt

\* the rows load_songs keeps: title and mood both non-empty
Usable(line) == Truthy(Field(line, "title")) /\ Truthy(Field(line, "mood"))

\* row["energy"] = int(row.get("energy", "3")), 3 on ValueError
EnergyOf(line) ==
  LET p == ParseInt(Field(line, "energy"))
  IN  IF p.ok THEN p.val ELSE 3

\* the dict DictReader yields for a line, energy converted
SongOf(line) ==
  [title    |-> Field(line, "title"),
   artist   |-> Field(line, "artist"),
   mood     |-> Field(line, "mood"),
   energy   |-> EnergyOf(line),
   language |-> Field(line, "language"),
   link     |-> Field(line, "link")]

\* load_songs(): the store after its ensure_dataset() call, whether the
\* read loop raised (int(None) is a TypeError, which is not caught), and
\* the list it returns
load_songs(f, lines) ==
  LET e      == ensure_dataset(f, lines, DefaultMin)
      usable == SelectSeq(e.rows, Usable)
      raises == \E i \in DOMAIN usable : Field(usable[i], "energy") = None
  IN  [store |-> e,
       err   |-> raises,
       songs |-> IF raises THEN <<>> ELSE [i \in 1..Len(usable) |-> SongOf(usable[i])]]

\* save_song(row): the store after the call
save_song(f, lines, row) ==
  LET e == IF f = "absent" THEN ensure_dataset(f, lines, DefaultMin)
           ELSE [file |-> f, rows |-> lines, wrote |-> FALSE]
  IN  [file |-> e.file, rows |-> Append(e.rows, writerow(row)), wrote |-> TRUE]

----------------------------------------------------------------------------
(* Query engine *)

\* an optional integer is a set of at most one integer; {} is None
NoInt == {}
Some(v) == {v}
TheInt(o) == CHOOSE v \in o : TRUE

\* the comparisons of the list comprehensions; the argument comes lower-cased
MoodMatches(s, ml) == lower(s.mood) = ml
LanguageMatches(s, ll) == lower(s.language) = ll
QueryMatches(s, ql) == Contains(ql, lower(s.title)) \/ Contains(ql, lower(s.artist))

AboveMin(s, lo) == s.energy >= lo
\* variant: the upper bound excluded
BelowMaxStrict(s, hi) == s.energy < hi
BelowMax(s, hi) == s.energy <= hi

\* variant: reverse=True forgotten
NeverDescending(mood) == FALSE
\* mood in ("Energetic", "Happy")
SortsDescending(mood) == mood \in {T_Energetic, T_Happy}

\* list.sort(key=energy, reverse=desc) is stable in both directions: the
\* records come out key by key, those of one key in their order in `s`
RECURSIVE SortBuckets(_, _, _)
SortBuckets(s, keys, desc) ==
  IF keys = {} THEN <<>>
  ELSE LET k == CHOOSE x \in keys : \A y \in keys : IF desc THEN x >= y ELSE x <= y
       IN  SelectSeq(s, LAMBDA r : r.energy = k) \o SortBuckets(s, keys \ {k}, desc)

SortByEnergy(s, desc) == SortBuckets(s, {s[i].energy : i \in DOMAIN s}, desc)

\* whether some list comprehension ran, so that `out` is a new list
Copies(mood, language, q, emin, emax) ==
  \/ Truthy(mood)
  \/ Truthy(language) /\ language # T_Any
  \/ Truthy(q)
  \/ emin # NoInt
  \/ emax # NoInt

\* filter_songs(songs, mood, language, q, energy_min, energy_max):
\*   err    - s["language"].lower() met a None language (AttributeError)
\*   out    - the returned list
\*   alias  - `out` is the caller's list object (no comprehension ran)
\*   songs  - the caller's list after the call (out.sort() sorts in place)
filter_songs(songs, mood, language, q, emin, emax) ==
  LET ml  == lower(mood)
      ll  == lower(language)
      ql  == lower(q)
      s1  == IF Truthy(mood) THEN SelectSeq(songs, LAMBDA s : MoodMatches(s, ml)) ELSE songs
      byLanguage == Truthy(language) /\ language # T_Any
      err == byLanguage /\ \E i \in DOMAIN s1 : s1[i].language = None
      s2  == IF byLanguage /\ ~err
             THEN SelectSeq(s1, LAMBDA s : LanguageMatches(s, ll)) ELSE s1
      s3  == IF Truthy(q) THEN SelectSeq(s2, LAMBDA s : QueryMatches(s, ql)) ELSE s2
      s4  == IF emin # NoInt THEN SelectSeq(s3, LAMBDA s : AboveMin(s, TheInt(emin))) ELSE s3
      s5  == IF emax # NoInt THEN SelectSeq(s4, LAMBDA s : BelowMax(s, TheInt(emax))) ELSE s4
      out == SortByEnergy(s5, SortsDescending(mood))
      alias == ~Copies(mood, language, q, emin, emax)
  IN  [err   |-> err,
       out   |-> IF err THEN <<>> ELSE out,
       alias |-> ~err /\ alias,
       songs |-> IF ~err /\ alias THEN out ELSE songs]

----------------------------------------------------------------------------
(* Routes *)

\* home(), lines 401-405: one try block parses both bounds, and the
\* handler of ValueError resets both
ParseBounds(emin, emax) ==
  LET badMin == Truthy(emin) /\ ~ParseInt(emin).ok
      badMax == Truthy(emax) /\ ~ParseInt(emax).ok
  IN  IF badMin \/ badMax
      THEN [emin |-> NoInt, emax |-> NoInt]
      ELSE [emin |-> IF Truthy(emin) THEN Some(ParseInt(emin).val) ELSE NoInt,
            emax |-> IF Truthy(emax) THEN Some(ParseInt(emax).val) ELSE NoInt]

\* filtered[:100]
Cap(s, n) == SubSeq(s, 1, IF Len(s) < n THEN Len(s) ELSE n)

\* add_song(), lines 444-453: the submitted fields as the handler holds them
FormTitle(fm) == strip(OrElse(fm.title, <<>>))
FormArtist(fm) == strip(OrElse(fm.artist, T_Unknown))
FormMood(fm) == capitalize(strip(OrElse(fm.mood, <<>>)))
FormLanguage(fm) == strip(OrElse(fm.language, T_Unknown))
FormLink(fm) == strip(OrElse(fm.link, <<>>))
FormEnergy(fm) ==
  LET p == ParseInt(OrElse(fm.energy, <<"3">>))
  IN  IF p.ok THEN (IF p.val < 1 THEN 1 ELSE IF p.val > 5 THEN 5 ELSE p.val) ELSE 3

\* variant: the membership test forgotten
RejectsTitleOnly(title, mood) == title = <<>> \/ mood = <<>>
\* not title or not mood or mood not in MOODS
Rejects(title, mood) == title = <<>> \/ mood = <<>> \/ ~InMoods(mood)

\* the row add_song hands to save_song
FormRow(fm) ==
  LET link == FormLink(fm)
  IN  Row(FormTitle(fm), FormArtist(fm), FormMood(fm), FormEnergy(fm), FormLanguage(fm),
          IF link = <<>>
          THEN youtube_search_link(<<FormTitle(fm), FormArtist(fm), FormLanguage(fm),
                                     FormMood(fm), T_song>>)
          ELSE link)

----------------------------------------------------------------------------
(* Inputs *)

\* catalog lines found in a songs.csv the program did not write itself:
\* energy out of range, non-numeric, missing (short line) and empty; an
\* unrecognized language; an empty title; a lower-case mood
InitRowPool ==
  { <<<<"A">>, <<"x">>, T_Happy, <<"7">>, T_English, <<"u">>>>,
    <<<<"B">>, <<"y">>, T_Calm, <<"a","b","c">>, <<"K","l","i","n","g","o","n">>>>,
    <<<<"C">>, <<"z">>, T_Sad>>,
    <<<<>>, <<"w">>, T_Happy, <<"2">>, T_Hindi, <<>>>>,
    <<<<"E">>, <<"v">>, <<"f","o","c","u","s">>, <<>>, T_Telugu, <<>>>> }

InitStores == UNION {[1..k -> InitRowPool] : k \in 0..MaxInitRows}

FileStates == {"absent", "corrupt", "ok"}

\* values of min_per_language: a small one and the default
MinChoices == {1, DefaultMin}

NoPrior == [op |-> "none", minArg |-> 0, wrote |-> FALSE]
NoReq == [mood |-> None, language |-> None, q |-> None, emin |-> None, emax |-> None]
NoArgs == [mood |-> None, language |-> None, q |-> None, emin |-> NoInt, emax |-> NoInt]
NoForm == [title |-> None, artist |-> None, mood |-> None, energy |-> None,
           language |-> None, link |-> None]

\* query strings of the recommendation request: emin/emax absent,
\* malformed and well-formed in every pairing that matters
ReqBounds ==
  { <<None, None>>, <<<<"a","b","c">>, <<" ","4">>>>, <<<<"2">>, <<"x">>>>,
    <<<<"2">>, <<" ","4">>>>, <<<<>>, <<"3">>>> }
Requests ==
  {[mood |-> T_Happy, language |-> T_Any, q |-> None, emin |-> b[1], emax |-> b[2]] :
     b \in ReqBounds}
  \cup {[NoReq EXCEPT !.emin = <<"2">>],
        [NoReq EXCEPT !.mood = <<"c","a","l","m">>, !.emax = <<"x">>],
        [mood |-> T_Happy, language |-> <<"t","e","l","u","g","u">>,
         q |-> <<"t","R","a","c","k"," ","0">>, emin |-> None, emax |-> <<"5">>]}

\* add-song submissions: four invalid, one valid
Forms ==
  { [NoForm EXCEPT !.mood = T_Happy],
    [NoForm EXCEPT !.title = <<" "," ">>, !.mood = T_Happy, !.energy = <<"4">>],
    [NoForm EXCEPT !.title = <<"X">>, !.mood = <<"j","a","z","z">>],
    [NoForm EXCEPT !.title = <<"X">>, !.artist = <<"Q">>, !.link = <<"u">>],
    [NoForm EXCEPT !.title = <<" ","X","&","Y"," ">>, !.mood = <<" ","h","A","P","P","Y">>,
                   !.energy = <<"9">>] }

\* record lists handed to filter_songs on its own
Song(title, artist, mood, energy, language) ==
  [title |-> title, artist |-> artist, mood |-> mood, energy |-> energy,
   language |-> language, link |-> <<>>]

SongPool ==
  { Song(<<"A","b">>, <<"Z","e","d">>, T_Happy, 4, T_English),
    Song(<<"b","a">>, <<"Z","e","d">>, <<"h","a","p","p","y">>, 2, T_Telugu),
    Song(<<"C","a","b">>, <<"Q","i">>, T_Happy, 2, T_English),
    Song(<<"D","a">>, <<"Q","i">>, T_Energetic, 3, T_English),
    Song(<<"G">>, <<"Z","e","d">>, T_Energetic, 1, T_Telugu),
    Song(<<"E","b">>, <<"Z","e","d">>, T_Calm, 5, T_Telugu),
    Song(<<"F">>, <<"Q","i">>, T_Calm, 2, T_English) }

SongLists == UNION {[1..k -> SongPool] : k \in 0..MaxLen}

ArgMoods == {None, <<>>, T_Happy, <<"h","a","p","p","y">>, <<"H","A","P","P","Y">>,
             T_Energetic, T_Calm}
ArgLanguages == {None, T_Any, <<"e","n","g","l","i","s","h">>}
ArgQueries == {None, <<"B">>}
ArgMins == {NoInt, Some(3)}
ArgMaxs == {NoInt, Some(4)}

----------------------------------------------------------------------------
(* State *)

VARIABLES
  file,     \* songs.csv: "absent", "corrupt" or "ok"
  rows,     \* its data lines
  pc,       \* "idle"; "responded" while a request's locals are alive;
            \* "ensured" when ensure_dataset has just returned;
            \* "call"/"returned" around a direct filter_songs call
  op,       \* the operation that ran last
  minArg,   \* min_per_language of the last ensure_dataset call
  wrote,    \* the last operation opened songs.csv for writing
  pre,      \* the store as the last operation found it: file and row count
  prior,    \* what ran just before the last ensure_dataset call
  outcome,  \* what the last operation answered
  req,      \* query string of the last recommendation request
  form,     \* fields of the last add-song submission
  songs,    \* the list load_songs returned, as it is now
  input,    \* the contents of the list handed to filter_songs, before the call
  args,     \* the arguments filter_songs got
  result,   \* the list filter_songs returned
  aliased,  \* that list is the caller's list object
  results,  \* the capped list the page shows
  adds      \* accepted submissions so far

vars == <<file, rows, pc, op, minArg, wrote, pre, prior, outcome, req, form, songs,
          input, args, result, aliased, results, adds>>

locals == <<req, form, songs, input, args, result, aliased, results>>

Blank ==
  /\ req = NoReq /\ form = NoForm /\ songs = <<>> /\ input = <<>>
  /\ args = NoArgs /\ result = <<>> /\ aliased = FALSE /\ results = <<>>

Init ==
  /\ file \in FileStates
  /\ rows \in InitStores
  /\ file # "ok" => rows = <<>>
  /\ pc = "idle" /\ op = "none" /\ minArg = 0 /\ wrote = FALSE
  /\ pre = [file |-> file, len |-> Len(rows)]
  /\ prior = NoPrior
  /\ outcome = "" /\ adds = 0
  /\ Blank

Snapshot == pre' = [file |-> file, len |-> Len(rows)]

\* a call of ensure_dataset(n), as the entry point makes it; a further
\* call may follow it at once
EnsureDataset(n) ==
  /\ pc \in {"idle", "ensured"}
  /\ \E e \in {ensure_dataset(file, rows, n)} :
         /\ file' = e.file /\ rows' = e.rows /\ wrote' = e.wrote
  /\ Snapshot
  /\ prior' = [op |-> op, minArg |-> minArg, wrote |-> wrote]
  /\ op' = "ensure" /\ minArg' = n /\ outcome' = "done" /\ pc' = "ensured"
  /\ UNCHANGED <<adds, locals>>

\* a call of load_songs(), as all_songs and surprise make it
LoadSongs ==
  /\ pc = "idle"
  /\ \E L \in {load_songs(file, rows)} :
         /\ file' = L.store.file /\ rows' = L.store.rows /\ wrote' = L.store.wrote
         /\ songs' = L.songs
         /\ outcome' = IF L.err THEN "error" ELSE "loaded"
  /\ Snapshot
  /\ op' = "load" /\ minArg' = 0 /\ pc' = "responded" /\ prior' = NoPrior
  /\ UNCHANGED <<adds, req, form, input, args, result, aliased, results>>

\* GET / and GET /recommend
Home(r) ==
  /\ pc = "idle"
  /\ \E L \in {load_songs(file, rows)} :
         /\ file' = L.store.file /\ rows' = L.store.rows /\ wrote' = L.store.wrote
         /\ IF L.err
            THEN /\ outcome' = "error"
                 /\ UNCHANGED <<songs, input, args, result, aliased, results>>
            ELSE IF ~Truthy(r.mood)
            THEN /\ outcome' = "empty"
                 /\ songs' = L.songs
                 /\ UNCHANGED <<input, args, result, aliased, results>>
            ELSE \E b \in {ParseBounds(r.emin, r.emax)} :
                 \E F \in {filter_songs(L.songs, r.mood, r.language, r.q, b.emin, b.emax)} :
                 /\ outcome' = IF F.err THEN "error" ELSE "results"
                 /\ input' = L.songs
                 /\ songs' = F.songs
                 /\ args' = [mood |-> r.mood, language |-> r.language, q |-> r.q,
                             emin |-> b.emin, emax |-> b.emax]
                 /\ result' = F.out
                 /\ aliased' = F.alias
                 /\ results' = Cap(F.out, ResultCap)
  /\ Snapshot
  /\ req' = r
  /\ op' = "home" /\ minArg' = 0 /\ pc' = "responded" /\ prior' = NoPrior
  /\ UNCHANGED <<adds, form>>

\* POST /add
AddSong(fm) ==
  /\ pc = "idle"
  /\ IF Rejects(FormTitle(fm), FormMood(fm))
     THEN /\ outcome' = "rejected"
          /\ wrote' = FALSE
          /\ UNCHANGED <<file, rows, adds>>
     ELSE /\ adds < MaxAdds
          /\ \E s \in {save_song(file, rows, FormRow(fm))} :
               file' = s.file /\ rows' = s.rows /\ wrote' = s.wrote
          /\ outcome' = "saved"
          /\ adds' = adds + 1
  /\ Snapshot
  /\ form' = fm
  /\ op' = "add" /\ minArg' = 0 /\ pc' = "responded" /\ prior' = NoPrior
  /\ UNCHANGED <<req, songs, input, args, result, aliased, results>>

\* the response is sent, or the caller of ensure_dataset goes on: the
\* locals are gone and the server waits for the next request
RequestDone ==
  /\ pc \in {"responded", "ensured"}
  /\ pc' = "idle" /\ op' = "none" /\ minArg' = 0 /\ wrote' = FALSE /\ outcome' = ""
  /\ pre' = [file |-> file, len |-> Len(rows)]
  /\ prior' = NoPrior
  /\ req' = NoReq /\ form' = NoForm /\ songs' = <<>> /\ input' = <<>>
  /\ args' = NoArgs /\ result' = <<>> /\ aliased' = FALSE /\ results' = <<>>
  /\ UNCHANGED <<file, rows, adds>>

Next ==
  \/ \E n \in MinChoices : EnsureDataset(n)
  \/ LoadSongs
  \/ \E r \in Requests : Home(r)
  \/ \E fm \in Forms : AddSong(fm)
  \/ RequestDone

Spec == Init /\ [][Next]_vars

----------------------------------------------------------------------------
(* filter_songs on its own: any record list, any arguments *)

FilterInit ==
  /\ file = "ok" /\ rows = <<>>
  /\ pc = "call" /\ op = "none" /\ minArg = 0 /\ wrote = FALSE
  /\ pre = [file |-> "ok", len |-> 0]
  /\ prior = NoPrior
  /\ outcome = "" /\ adds = 0
  /\ req = NoReq /\ form = NoForm /\ input = <<>>
  /\ args = NoArgs /\ result = <<>> /\ aliased = FALSE /\ results = <<>>
  /\ songs \in SongLists

FilterCall(m, l, q, lo, hi) ==
  /\ pc = "call"
  /\ \E F \in {filter_songs(songs, m, l, q, lo, hi)} :
         /\ input' = songs
         /\ songs' = F.songs
         /\ result' = F.out
         /\ aliased' = F.alias
         /\ outcome' = IF F.err THEN "error" ELSE "results"
  /\ args' = [mood |-> m, language |-> l, q |-> q, emin |-> lo, emax |-> hi]
  /\ op' = "filter" /\ pc' = "returned"
  /\ UNCHANGED <<file, rows, minArg, wrote, pre, prior, req, form, results, adds>>

FilterNext ==
  \E m \in ArgMoods, l \in ArgLanguages, q \in ArgQueries, lo \in ArgMins, hi \in ArgMaxs :
    FilterCall(m, l, q, lo, hi)

FilterSpec == FilterInit /\ [][FilterNext]_vars

----------------------------------------------------------------------------
(* Properties *)

\* rows of the store whose language column is `lang`
StoredCount(lines, lang) ==
  Cardinality({i \in DOMAIN lines : Len(lines[i]) >= 5 /\ lines[i][5] = lang})

CoverageMet(lines, n) == \A k \in DOMAIN LANGUAGES : StoredCount(lines, LANGUAGES[k]) >= n

IsPrefix(a, b) == Len(a) <= Len(b) /\ SubSeq(b, 1, Len(a)) = a

\* two characters that differ at most in letter case
FoldEq(c, d) ==
  c = d \/ \E k \in DOMAIN UpperLetters : {c, d} = {UpperLetters[k], LowerLetters[k]}

SameFold(a, b) == Len(a) = Len(b) /\ \A i \in 1..Len(a) : FoldEq(a[i], b[i])

FoldContains(sub, s) ==
  \E i \in 0..(Len(s) - Len(sub)) : SameFold(SubSeq(s, i + 1, i + Len(sub)), sub)

\* a well-formed integer parameter: optional blanks, optional sign, digits
WellFormedInt(t) == Truthy(t) /\ ParseInt(t).ok

\* C1: every record load_songs returns has an energy in {1,2,3,4,5},
\* whatever the energy column of the stored line held.
C1_EnergyInRange ==
  op \in {"load", "home"} => \A i \in DOMAIN songs : songs[i].energy \in 1..5

\* C2: after ensure_dataset(N) every tracked language has at least N stored
\* rows, and a call with the same N right after it opens no file for
\* writing and leaves the store as it is.
C2_EnsureIdempotent ==
  /\ [](op = "ensure" => file = "ok" /\ CoverageMet(rows, minArg))
  /\ [][(op = "ensure" /\ op' = "ensure" /\ minArg' = minArg)
          => (~wrote' /\ file' = file /\ rows' = rows)]_vars

\* a second ensure_dataset(N) has run right after a first one that wrote
C2_Witness ==
  /\ op = "ensure" /\ prior.op = "ensure" /\ prior.minArg = minArg
  /\ prior.wrote /\ ~wrote
  /\ \E i \in DOMAIN rows : Len(rows[i]) >= 5 /\ ~IsTracked(rows[i][5])

\* C3 as stated: load_songs leaves the store exactly as it was, whatever
\* the store was.
C3_LoadReadOnly ==
  [][(pc = "idle" /\ op' \in {"load", "home"}) => (file' = file /\ rows' = rows)]_vars

\* C3 as amended: load_songs leaves the store exactly as it was if and only
\* if the file exists, is readable and holds at least DefaultMin rows of
\* every tracked language; in every other case its ensure_dataset() call
\* creates, rebuilds or tops up the store.
C3_LoadReadOnlyWhenCovered ==
  [][(pc = "idle" /\ op' \in {"load", "home"})
       => ((file' = file /\ rows' = rows) <=> (file = "ok" /\ CoverageMet(rows, DefaultMin)))]_vars

\* load_songs has run on a covered catalog and returned its records
C3_Witness ==
  /\ op = "load" /\ outcome = "loaded" /\ ~wrote
  /\ pre.file = "ok" /\ pre.len = Len(rows) /\ songs # <<>>

\* C4: on an existing readable catalog every operation leaves the rows it
\* found as a prefix of the rows it leaves.
C4_AppendOnly ==
  [][file = "ok" => (file' = "ok" /\ IsPrefix(rows, rows'))]_vars

\* an existing, non-empty catalog has been topped up
C4_Witness ==
  /\ op = "ensure" /\ wrote /\ pre.file = "ok" /\ pre.len > 0 /\ Len(rows) > pre.len

\* the submission's title is empty or blank, or its mood, case aside, is
\* none of MOODS
InvalidSubmission(fm) ==
  \/ ~Truthy(fm.title)
  \/ \A i \in DOMAIN fm.title : fm.title[i] \in Whitespace
  \/ ~Truthy(fm.mood)
  \/ ~\E k \in DOMAIN MOODS : SameFold(strip(fm.mood), MOODS[k])

\* C5: an invalid add-song submission is rejected before any write: the
\* store is left as it was (not created, not topped up, no row appended)
\* and the answer is the validation notice.
C5_InvalidRejected ==
  [][(pc = "idle" /\ op' = "add" /\ InvalidSubmission(form'))
       => (file' = file /\ rows' = rows /\ ~wrote' /\ outcome' = "rejected")]_vars

\* a titled submission with an untracked mood has been answered while no
\* catalog exists
C5_Witness ==
  /\ op = "add" /\ Truthy(form.title) /\ InvalidSubmission(form)
  /\ pre.file = "absent" /\ file = "absent"

OnlyMood(m) == [NoArgs EXCEPT !.mood = m]

CalmOf(s) == filter_songs(s, T_Calm, None, None, NoInt, NoInt).out

\* C6 as stated: whenever the Energetic and the Calm result of one record
\* list are both non-empty, the first Energetic record has at least the
\* energy of the first Calm record.
C6_MoodDirection ==
  (op = "filter" /\ args = OnlyMood(T_Energetic) /\ result # <<>> /\ CalmOf(input) # <<>>)
    => result[1].energy >= CalmOf(input)[1].energy

\* some Energetic record has at least the energy of some Calm record
EnergeticReachesCalm(s) ==
  \E i, j \in DOMAIN s :
    /\ SameFold(s[i].mood, T_Energetic) /\ SameFold(s[j].mood, T_Calm)
    /\ s[i].energy >= s[j].energy

\* C6 as amended: for every record list in which some Energetic record has
\* at least the energy of some Calm record, the first Energetic record has
\* at least the energy of the first Calm record.
C6_MoodDirectionWhenReachable ==
  (op = "filter" /\ args = OnlyMood(T_Energetic) /\ EnergeticReachesCalm(input))
    => /\ result # <<>> /\ CalmOf(input) # <<>>
       /\ result[1].energy >= CalmOf(input)[1].energy

\* both results hold two records of different energy
C6_Witness ==
  /\ op = "filter" /\ args = OnlyMood(T_Energetic) /\ EnergeticReachesCalm(input)
  /\ Len(input) >= 3
  /\ \E i, j \in DOMAIN result : result[i].energy # result[j].energy

\* C7: two mood arguments that differ only in letter case give the same
\* records in the same order.
C7_MoodCaseInsensitive ==
  (op = "filter" /\ outcome = "results" /\ Truthy(args.mood))
    => \A m \in ArgMoods :
         (Truthy(m) /\ SameFold(m, args.mood))
           => filter_songs(input, m, args.language, args.q, args.emin, args.emax).out = result

\* C8: after filter_songs the caller's list holds the same records in the
\* same order as before, and the returned list is not the caller's list.
C8_FilterPure ==
  op = "filter" => (songs = input /\ ~aliased)

\* the criteria of the call, each applied only when given
Satisfies(s, a) ==
  /\ Truthy(a.mood) => SameFold(s.mood, a.mood)
  /\ (Truthy(a.language) /\ a.language # T_Any) => SameFold(s.language, a.language)
  /\ Truthy(a.q) => (FoldContains(a.q, s.title) \/ FoldContains(a.q, s.artist))
  /\ \A lo \in a.emin : s.energy >= lo
  /\ \A hi \in a.emax : s.energy <= hi

\* C9: the result holds exactly the input records that satisfy every given
\* criterion, by energy descending for mood "Energetic" or "Happy" and
\* ascending otherwise, records of equal energy in their input order.
C9_FilterResult ==
  (op = "filter" /\ outcome = "results")
    => LET keep == SelectSeq(input, LAMBDA s : Satisfies(s, args))
           desc == args.mood = T_Energetic \/ args.mood = T_Happy
       IN  /\ Len(result) = Len(keep)
           /\ \A e \in {keep[i].energy : i \in DOMAIN keep} \cup {result[i].energy : i \in DOMAIN result} :
                SelectSeq(result, LAMBDA s : s.energy = e) = SelectSeq(keep, LAMBDA s : s.energy = e)
           /\ \A i, j \in DOMAIN result :
                i < j => IF desc THEN result[i].energy >= result[j].energy
                                 ELSE result[i].energy <= result[j].energy

\* three records matched, two of them tied, and the higher energy came first
C9_Witness ==
  /\ op = "filter" /\ args.mood = T_Happy /\ Len(result) = 3
  /\ result[1].energy > result[2].energy
  /\ result[2].energy = result[3].energy /\ result[2] # result[3]
  /\ input[1].energy < input[3].energy

\* C10: a malformed emin or emax counts as absent on its own: the request
\* still answers with results, and a well-formed other bound still filters
\* them.
C10_MalformedBoundAlone ==
  (op = "home" /\ outcome = "results")
    => /\ WellFormedInt(req.emin) => \A i \in DOMAIN result : result[i].energy >= ParseInt(req.emin).val
       /\ WellFormedInt(req.emax) => \A i \in DOMAIN result : result[i].energy <= ParseInt(req.emax).val

=============================================================================
